---- MODULE Spec2Model ----
(***************************************************************************)
(* ESP32 motor tester (src/motor_tester.ino): the ESC controller state,    *)
(* its HTTP handlers, the 50 Hz loop and the PWM / DShot transmitters.     *)
(*                                                                         *)
(* The sketch is single threaded: loop() calls server.handleClient(),      *)
(* which runs at most one handler to completion, then checks whether a     *)
(* signal is due and sends it, then delays.  pc is the position of that    *)
(* one thread.  A DShot frame and a PWM pulse are split in a begin and an  *)
(* end step so that the pin level and the interrupt mask while a signal is *)
(* on the wire are states of the model.                                    *)
(*                                                                         *)
(* The file holds two listings of the sketch (lines 1-730 and 731-1642);   *)
(* the second adds serial diagnostics and a WiFi watchdog and is otherwise *)
(* statement for statement the first.  Line numbers refer to the first.    *)
(***************************************************************************)
EXTENDS Integers, Sequences, FiniteSets, TLC

VARIABLES
  sys,                \* "boot" | "spiffs_failed" | "wifi_failed" | "running"
  pc,                 \* position of the single thread
  escPin,             \* int escPin
  protocol,           \* String protocol
  throttleValue,      \* int throttleValue
  escArmed,           \* bool escArmed
  direction,          \* String direction
  directionSupported, \* bool directionSupported
  prefs,              \* Preferences namespace "motor_tester" (flash)
  pinModes,           \* GPIO mode per pin
  pinLevels,          \* GPIO output level per pin
  interruptsOn,       \* FALSE between noInterrupts() and interrupts()
  tx,                 \* the signal being driven on the pin, if any
  cmd,                \* sendDShotCommand: command and loop index i
  req,                \* the request handled in this iteration of loop()
  resp,               \* the response sent for it
  wire,               \* the bit or pulse being timed: loop index i of
                      \* sendDShot and the delayMicroseconds() arguments
  escSpin             \* the ESC at the other end of the pin: the spin
                      \* direction command it received last, 0 if none

vars == <<sys, pc, escPin, protocol, throttleValue, escArmed, direction,
          directionSupported, prefs, pinModes, pinLevels, interruptsOn,
          tx, cmd, req, resp, wire, escSpin>>

escState == <<escPin, protocol, throttleValue, escArmed, direction,
              directionSupported>>

-----------------------------------------------------------------------------
(* Optional values: a JSON key or a preferences key that may be missing.   *)

Absent == <<>>
Some(x) == <<x>>
Has(o) == o # <<>>
Get(o) == o[1]
GetOr(o, default) == IF Has(o) THEN Get(o) ELSE default

-----------------------------------------------------------------------------
(* Input universes.                                                        *)

PinInputs == {-1, 5, 39, 40}

\* mutant of ValidPin: the upper bound is off by one
ValidPin_OffByOne(p) == p >= 0 /\ p <= 40

\* the pin range check of handleSetConfig
ValidPin(p) == p >= 0 /\ p <= 39

\* the GPIO pins these inputs and the default can select, of GPIO 0..39
GPIO == {p \in PinInputs \cup {5} : ValidPin(p)}

ProtocolInputs == {"PWM", "DSHOT150", "DSHOT300", "DSHOT600", "DSHOT1200"}

DirectionInputs == {"FORWARD", "REVERSE", "BRAKE", "LEFT"}

ThrottleInputs == {-10, 47, 500, 1500, 5000, 9999}

SaveOutcomes == {TRUE}

\* mutant of StartsWithDSHOT: the prefix test accepts every name
StartsWithDSHOT_Any(s) == TRUE

\* String::startsWith("DSHOT") over the protocol names of the model
StartsWithDSHOT(s) == s \in {"DSHOT150", "DSHOT300", "DSHOT600", "DSHOT1200"}

-----------------------------------------------------------------------------
(* Program constants.                                                      *)

DSHOT_CMD_BEEP1 == 1
\* DSHOT_CMD_MOTOR_STOP confused with the next command of the table
DSHOT_CMD_MOTOR_STOP_Beep == DSHOT_CMD_BEEP1

DSHOT_CMD_MOTOR_STOP == 0
DSHOT_CMD_SPIN_DIRECTION_NORMAL == 20
DSHOT_CMD_SPIN_DIRECTION_REVERSED == 21
\* CommandRepeats with the loop written i < 10 - 1
CommandRepeats_Nine == 10 - 1

CommandRepeats == 10

-----------------------------------------------------------------------------
(* Arduino constrain(amt, low, high)                                       *)

constrain(amt, low, high) ==
  IF amt < low THEN low ELSE IF amt > high THEN high ELSE amt

-----------------------------------------------------------------------------
(* FrameEncoder: the first half of sendDShot, on uint16_t values.          *)

RECURSIVE Xor(_, _)
Xor(a, b) ==
  IF a = 0 /\ b = 0 THEN 0
  ELSE (((a % 2) + (b % 2)) % 2) + 2 * Xor(a \div 2, b \div 2)

RECURSIVE Or(_, _)
Or(a, b) ==
  IF a = 0 /\ b = 0 THEN 0
  ELSE (IF (a % 2) = 1 \/ (b % 2) = 1 THEN 1 ELSE 0) + 2 * Or(a \div 2, b \div 2)

U16(x) == x % 65536

RECURSIVE CrcFold(_, _, _)
CrcFold(crc, temp, n) ==
  IF n = 0 THEN crc
  ELSE CrcFold(Xor(crc, temp % 16), temp \div 16, n - 1)

\* mutant of DShotCrc: the inverted checksum of bidirectional DShot
DShotCrc_Inverted(packet) == 15 - CrcFold(0, packet, 3)

DShotCrc(packet) == CrcFold(0, packet, 3)

EncodeFrame(value) ==
  LET packet == U16(value * 2)
  IN  Or(packet, U16(DShotCrc(packet) * 4096))

-----------------------------------------------------------------------------
(* Records.                                                                *)

NoTx == [kind |-> "NONE", value |-> 0, frame |-> 0]
NoCmd == [command |-> 0, i |-> 0]
NoReq == [op |-> "none", body |-> FALSE, pin |-> Absent, protocol |-> Absent,
          value |-> Absent, direction |-> Absent, saveOk |-> TRUE]
NoResp == [code |-> 0, body |-> "", doc |-> Absent]
NoWire == [i |-> 0, high |-> 0, low |-> 0]

Reply(code, body) == [code |-> code, body |-> body, doc |-> Absent]

Request(op) == [NoReq EXCEPT !.op = op]

StatusReqs == {Request("status")}
ArmReqs == {Request("arm")}
DisarmReqs == {Request("disarm")}
BrakeReqs == {Request("brake")}

ConfigReqs ==
  {Request("config")} \cup
  {[Request("config") EXCEPT !.body = TRUE, !.pin = p, !.protocol = s, !.saveOk = ok] :
     p \in {Absent} \cup {Some(x) : x \in PinInputs},
     s \in {Absent} \cup {Some(x) : x \in ProtocolInputs},
     ok \in SaveOutcomes}

ThrottleReqs ==
  {Request("throttle")} \cup
  {[Request("throttle") EXCEPT !.body = TRUE, !.value = v] :
     v \in {Absent} \cup {Some(x) : x \in ThrottleInputs}}

DirectionReqs ==
  {Request("direction")} \cup
  {[Request("direction") EXCEPT !.body = TRUE, !.direction = d, !.saveOk = ok] :
     d \in {Absent} \cup {Some(x) : x \in DirectionInputs},
     ok \in SaveOutcomes}

NoPrefs == [escPin |-> Absent, protocol |-> Absent, direction |-> Absent]

\* mutant of Put: the write is never committed to flash
Put_Dropped(store, key, val, ok) == store

\* Preferences::putInt / putString: the key is written unless the write fails
Put(store, key, val, ok) ==
  IF ok THEN [store EXCEPT ![key] = Some(val)] ELSE store

-----------------------------------------------------------------------------
(* State after the global initializers, nothing persisted.                 *)

Init ==
  /\ sys = "boot"
  /\ pc = "boot"
  /\ escPin = 5
  /\ protocol = "PWM"
  /\ throttleValue = 1000
  /\ escArmed = FALSE
  /\ direction = "FORWARD"
  /\ directionSupported = FALSE
  /\ prefs = NoPrefs
  /\ pinModes = [p \in GPIO |-> "UNSET"]
  /\ pinLevels = [p \in GPIO |-> "LOW"]
  /\ interruptsOn = TRUE
  /\ tx = NoTx
  /\ cmd = NoCmd
  /\ req = NoReq
  /\ resp = NoResp
  /\ wire = NoWire
  /\ escSpin = 0

\* Power cycle or reset: RAM and GPIO return to their reset values, flash stays
Restart ==
  /\ pc # "boot"
  /\ sys' = "boot"
  /\ pc' = "boot"
  /\ escPin' = 5
  /\ protocol' = "PWM"
  /\ throttleValue' = 1000
  /\ escArmed' = FALSE
  /\ direction' = "FORWARD"
  /\ directionSupported' = FALSE
  /\ pinModes' = [p \in GPIO |-> "UNSET"]
  /\ pinLevels' = [p \in GPIO |-> "LOW"]
  /\ interruptsOn' = TRUE
  /\ tx' = NoTx
  /\ cmd' = NoCmd
  /\ req' = NoReq
  /\ resp' = NoResp
  /\ wire' = NoWire
  /\ UNCHANGED <<prefs, escSpin>>

-----------------------------------------------------------------------------
(* updateDirectionSupport(): the new directionSupported and direction.     *)

\* mutants of updateDirectionSupport
updateDirectionSupport_KeepDirection(proto, dir) ==
  [directionSupported |-> StartsWithDSHOT(proto), direction |-> dir]

updateDirectionSupport_Exact(proto, dir) ==
  [directionSupported |-> (proto = "DSHOT150"),
   direction |-> IF ~(proto = "DSHOT150") THEN "FORWARD" ELSE dir]

updateDirectionSupport_Inverted(proto, dir) ==
  [directionSupported |-> StartsWithDSHOT(proto),
   direction |-> IF StartsWithDSHOT(proto) THEN "FORWARD" ELSE dir]

updateDirectionSupport(proto, dir) ==
  [directionSupported |-> StartsWithDSHOT(proto),
   direction |-> IF ~StartsWithDSHOT(proto) THEN "FORWARD" ELSE dir]

(* setup()                                                                 *)
Setup(spiffsOk, wifiOk) ==
  /\ pc = "boot"
  /\ pc' = "handleClient"
  /\ IF ~spiffsOk
     THEN /\ sys' = "spiffs_failed"
          /\ UNCHANGED <<escState, pinModes, pinLevels>>
     ELSE LET pin == GetOr(prefs.escPin, 5)
              proto == GetOr(prefs.protocol, "PWM")
              dir == GetOr(prefs.direction, "FORWARD")
              uds == updateDirectionSupport(proto, dir)
          IN  /\ escPin' = pin
              /\ protocol' = proto
              /\ direction' = uds.direction
              /\ directionSupported' = uds.directionSupported
              /\ pinModes' = [pinModes EXCEPT ![pin] = "OUTPUT"]
              /\ pinLevels' = [pinLevels EXCEPT ![pin] = "LOW"]
              /\ sys' = IF wifiOk THEN "running" ELSE "wifi_failed"
              /\ UNCHANGED <<throttleValue, escArmed>>
  /\ UNCHANGED <<prefs, interruptsOn, tx, cmd, req, resp, wire, escSpin>>

-----------------------------------------------------------------------------
(* SignalTransmitter.  sendPWM and sendDShot each take two steps: the begin *)
(* step drives the pin HIGH (sendDShot after noInterrupts()), the end step  *)
(* is the return, with the pin LOW (and interrupts() done).                 *)

sendPWMBegin(microseconds) ==
  /\ tx' = [kind |-> "PWM", value |-> microseconds, frame |-> 0]
  /\ pinLevels' = [pinLevels EXCEPT ![escPin] = "HIGH"]
  /\ UNCHANGED interruptsOn

\* mutant of sendPWMEnd: the falling edge is missing
sendPWMEnd_NoFallingEdge ==
  /\ tx' = NoTx
  /\ UNCHANGED <<pinLevels, interruptsOn>>

sendPWMEnd ==
  /\ tx' = NoTx
  /\ pinLevels' = [pinLevels EXCEPT ![escPin] = "LOW"]
  /\ UNCHANGED interruptsOn

sendDShotBegin(value) ==
  /\ tx' = [kind |-> "DSHOT", value |-> value, frame |-> EncodeFrame(value)]
  /\ interruptsOn' = FALSE
  /\ pinLevels' = [pinLevels EXCEPT ![escPin] = "HIGH"]

sendDShotEnd ==
  /\ tx' = NoTx
  /\ interruptsOn' = TRUE
  /\ pinLevels' = [pinLevels EXCEPT ![escPin] = "LOW"]

-----------------------------------------------------------------------------
(* sendDShotCommand(command): ten frames, delay(1) after each.              *)

\* the entry of sendDShotCommand, called last by a handler that sends reply
\* when the command has been sent: the first frame begins
sendDShotCommand(command, reply) ==
  IF ~StartsWithDSHOT(protocol)
  THEN /\ resp' = reply
       /\ pc' = "signal"
       /\ UNCHANGED <<cmd, tx, pinLevels, interruptsOn>>
  ELSE /\ cmd' = [command |-> command, i |-> 0]
       /\ sendDShotBegin(command)
       /\ pc' = "cmdFrame"
       /\ UNCHANGED resp

\* sendDShot returns inside sendDShotCommand; delay(1) starts
CmdFrameEnd ==
  /\ pc = "cmdFrame"
  /\ sendDShotEnd
  /\ pc' = "cmdDelay"
  /\ UNCHANGED <<escSpin, wire, sys, escState, prefs, pinModes, cmd, req, resp>>

\* mutant of CmdDelayEnd: the loop index is never incremented
CmdDelayEnd_NoIncrement ==
  /\ pc = "cmdDelay"
  /\ IF cmd.i < CommandRepeats
     THEN /\ cmd' = cmd
          /\ sendDShotBegin(cmd.command)
          /\ pc' = "cmdFrame"
          /\ UNCHANGED resp
     ELSE /\ cmd' = NoCmd
          /\ resp' = IF req.op = "brake" THEN Reply(200, "braking")
                     ELSE Reply(200, "ok")
          /\ pc' = "signal"
          /\ UNCHANGED <<tx, pinLevels, interruptsOn>>
  /\ UNCHANGED <<escSpin, wire, sys, escState, prefs, pinModes, req>>

\* mutant of CmdDelayEnd: the frames after the first carry the throttle
CmdDelayEnd_ThrottleFrame ==
  /\ pc = "cmdDelay"
  /\ IF cmd.i + 1 < CommandRepeats
     THEN /\ cmd' = [cmd EXCEPT !.i = @ + 1]
          /\ sendDShotBegin(throttleValue)
          /\ pc' = "cmdFrame"
          /\ UNCHANGED resp
     ELSE /\ cmd' = NoCmd
          /\ resp' = IF req.op = "brake" THEN Reply(200, "braking")
                     ELSE Reply(200, "ok")
          /\ pc' = "signal"
          /\ UNCHANGED <<tx, pinLevels, interruptsOn>>
  /\ UNCHANGED <<escSpin, wire, sys, escState, prefs, pinModes, req>>

\* delay(1) is over; i++, then the next frame or the handler's reply
CmdDelayEnd ==
  /\ pc = "cmdDelay"
  /\ IF cmd.i + 1 < CommandRepeats
     THEN /\ cmd' = [cmd EXCEPT !.i = @ + 1]
          /\ sendDShotBegin(cmd.command)
          /\ pc' = "cmdFrame"
          /\ UNCHANGED resp
     ELSE /\ cmd' = NoCmd
          /\ resp' = IF req.op = "brake" THEN Reply(200, "braking")
                     ELSE Reply(200, "ok")
          /\ pc' = "signal"
          /\ UNCHANGED <<tx, pinLevels, interruptsOn>>
  /\ UNCHANGED <<escSpin, wire, sys, escState, prefs, pinModes, req>>

-----------------------------------------------------------------------------
(* HTTP handlers, run by server.handleClient() at the top of loop().        *)

Serving == sys = "running" /\ pc = "handleClient"

\* handleClient() with no request pending, or with no server started
NoRequest ==
  /\ pc = "handleClient"
  /\ req' = NoReq
  /\ resp' = NoResp
  /\ pc' = "signal"
  /\ UNCHANGED <<escSpin, wire, sys, escState, prefs, pinModes, pinLevels, interruptsOn, tx,
                 cmd>>

handleGetStatus(r) ==
  /\ Serving
  /\ req' = r
  /\ resp' = [code |-> 200, body |-> "status",
              doc |-> Some([pin |-> escPin, protocol |-> protocol,
                            directionSupported |-> directionSupported,
                            throttle |-> throttleValue, armed |-> escArmed,
                            direction |-> direction])]
  /\ pc' = "signal"
  /\ UNCHANGED <<escSpin, wire, sys, escState, prefs, pinModes, pinLevels, interruptsOn, tx,
                 cmd>>

\* mutant of ValidProtocol: any name that starts with DSHOT is accepted
ValidProtocol_Prefix(s) == s = "PWM" \/ StartsWithDSHOT(s)

\* mutant of ValidProtocol: only the default protocol is accepted
ValidProtocol_PwmOnly(s) == s = "PWM"

ValidProtocol(s) ==
  s = "PWM" \/ s = "DSHOT150" \/ s = "DSHOT300" \/ s = "DSHOT600"

\* mutant of handleSetConfig: a value is applied only if its save succeeded
handleSetConfig_SaveChecked(r) ==
  /\ Serving
  /\ req' = r
  /\ pc' = "signal"
  /\ IF r.body
     THEN LET pinOk == Has(r.pin) /\ ValidPin(Get(r.pin)) /\ r.saveOk
              newPin == IF pinOk THEN Get(r.pin) ELSE escPin
              protoOk == Has(r.protocol) /\ ValidProtocol(Get(r.protocol))
                         /\ r.saveOk
              newProto == IF protoOk THEN Get(r.protocol) ELSE protocol
              uds == updateDirectionSupport(newProto, direction)
              prefs1 == IF pinOk THEN Put(prefs, "escPin", newPin, r.saveOk)
                        ELSE prefs
          IN  /\ escPin' = newPin
              /\ pinModes' = IF pinOk
                             THEN [[pinModes EXCEPT ![escPin] = "INPUT"]
                                     EXCEPT ![newPin] = "OUTPUT"]
                             ELSE pinModes
              /\ pinLevels' = IF pinOk
                              THEN [pinLevels EXCEPT ![newPin] = "LOW"]
                              ELSE pinLevels
              /\ protocol' = newProto
              /\ prefs' = IF protoOk
                          THEN Put(prefs1, "protocol", newProto, r.saveOk)
                          ELSE prefs1
              /\ directionSupported' = IF protoOk THEN uds.directionSupported
                                       ELSE directionSupported
              /\ direction' = IF protoOk THEN uds.direction ELSE direction
              /\ resp' = Reply(200, "ok")
     ELSE /\ resp' = Reply(400, "No data received")
          /\ UNCHANGED <<escPin, protocol, direction, directionSupported,
                         prefs, pinModes, pinLevels>>
  /\ UNCHANGED <<escSpin, wire, sys, throttleValue, escArmed, interruptsOn, tx, cmd>>

handleSetConfig(r) ==
  /\ Serving
  /\ req' = r
  /\ pc' = "signal"
  /\ IF r.body
     THEN LET pinOk == Has(r.pin) /\ ValidPin(Get(r.pin))
              newPin == IF pinOk THEN Get(r.pin) ELSE escPin
              protoOk == Has(r.protocol) /\ ValidProtocol(Get(r.protocol))
              newProto == IF protoOk THEN Get(r.protocol) ELSE protocol
              uds == updateDirectionSupport(newProto, direction)
              prefs1 == IF pinOk THEN Put(prefs, "escPin", newPin, r.saveOk)
                        ELSE prefs
          IN  /\ escPin' = newPin
              /\ pinModes' = IF pinOk
                             THEN [[pinModes EXCEPT ![escPin] = "INPUT"]
                                     EXCEPT ![newPin] = "OUTPUT"]
                             ELSE pinModes
              /\ pinLevels' = IF pinOk
                              THEN [pinLevels EXCEPT ![newPin] = "LOW"]
                              ELSE pinLevels
              /\ protocol' = newProto
              /\ prefs' = IF protoOk
                          THEN Put(prefs1, "protocol", newProto, r.saveOk)
                          ELSE prefs1
              /\ directionSupported' = IF protoOk THEN uds.directionSupported
                                       ELSE directionSupported
              /\ direction' = IF protoOk THEN uds.direction ELSE direction
              /\ resp' = Reply(200, "ok")
     ELSE /\ resp' = Reply(400, "No data received")
          /\ UNCHANGED <<escPin, protocol, direction, directionSupported,
                         prefs, pinModes, pinLevels>>
  /\ UNCHANGED <<escSpin, wire, sys, throttleValue, escArmed, interruptsOn, tx, cmd>>

\* mutant of clampThrottle: the DShot branch clamps to the throttle band
clampThrottle_ThrottleBand(proto, value) ==
  IF proto = "PWM" THEN constrain(value, 1000, 2000)
  ELSE constrain(value, 48, 2047)

\* the range policy of handleSetThrottle
clampThrottle(proto, value) ==
  IF proto = "PWM" THEN constrain(value, 1000, 2000)
  ELSE constrain(value, 0, 2047)

handleSetThrottle(r) ==
  /\ Serving
  /\ req' = r
  /\ pc' = "signal"
  /\ IF r.body
     THEN /\ throttleValue' =
               IF Has(r.value)
               THEN clampThrottle(protocol, Get(r.value))
               ELSE throttleValue
          /\ resp' = Reply(200, "ok")
     ELSE /\ resp' = Reply(400, "No data received")
          /\ UNCHANGED throttleValue
  /\ UNCHANGED <<escSpin, wire, sys, escPin, protocol, escArmed, direction,
                 directionSupported, prefs, pinModes, pinLevels, interruptsOn,
                 tx, cmd>>

\* mutant of idleThrottle: the PWM idle value for every protocol
idleThrottle_AlwaysPwm(proto) == 1000

\* the idle throttle handleArm stores
idleThrottle(proto) == IF proto = "PWM" THEN 1000 ELSE 48

handleArm(r) ==
  /\ Serving
  /\ req' = r
  /\ pc' = "signal"
  /\ escArmed' = TRUE
  /\ throttleValue' = idleThrottle(protocol)
  /\ resp' = Reply(200, "armed")
  /\ UNCHANGED <<escSpin, wire, sys, escPin, protocol, direction, directionSupported, prefs,
                 pinModes, pinLevels, interruptsOn, tx, cmd>>

\* what handleDisarm reads and writes, as one value
DisarmView ==
  [escPin |-> escPin, escArmed |-> escArmed, throttleValue |-> throttleValue,
   pinLevels |-> pinLevels]

\* mutants of disarmed
disarmed_KeepThrottle(st) ==
  [st EXCEPT !.escArmed = FALSE,
             !.pinLevels = [@ EXCEPT ![st.escPin] = "LOW"]]

disarmed_Toggle(st) ==
  [st EXCEPT !.escArmed = FALSE,
             !.throttleValue = IF @ = 0 THEN 1000 ELSE 0,
             !.pinLevels = [@ EXCEPT ![st.escPin] = "LOW"]]

\* the three assignments of handleDisarm
disarmed(st) ==
  [st EXCEPT !.escArmed = FALSE,
             !.throttleValue = 0,
             !.pinLevels = [@ EXCEPT ![st.escPin] = "LOW"]]

handleDisarm(r) ==
  /\ Serving
  /\ req' = r
  /\ pc' = "signal"
  /\ escArmed' = disarmed(DisarmView).escArmed
  /\ throttleValue' = disarmed(DisarmView).throttleValue
  /\ pinLevels' = disarmed(DisarmView).pinLevels
  /\ resp' = Reply(200, "disarmed")
  /\ UNCHANGED <<escSpin, wire, sys, escPin, protocol, direction, directionSupported, prefs,
                 pinModes, interruptsOn, tx, cmd>>

\* mutant of RecognizedDirection: the name is not validated
RecognizedDirection_Any(d) == TRUE

\* the direction name check of handleSetDirection
RecognizedDirection(d) == d = "FORWARD" \/ d = "REVERSE" \/ d = "BRAKE"

handleSetDirection(r) ==
  /\ Serving
  /\ req' = r
  /\ UNCHANGED <<escSpin, wire, sys, escPin, protocol, throttleValue, escArmed,
                 directionSupported, pinModes>>
  /\ IF ~directionSupported
     THEN /\ resp' = Reply(400, "Direction control not supported by current protocol")
          /\ pc' = "signal"
          /\ UNCHANGED <<direction, prefs, cmd, tx, pinLevels, interruptsOn>>
     ELSE IF ~r.body
     THEN /\ resp' = Reply(400, "No data received")
          /\ pc' = "signal"
          /\ UNCHANGED <<direction, prefs, cmd, tx, pinLevels, interruptsOn>>
     ELSE IF ~Has(r.direction)
     THEN /\ resp' = Reply(400, "No direction specified")
          /\ pc' = "signal"
          /\ UNCHANGED <<direction, prefs, cmd, tx, pinLevels, interruptsOn>>
     ELSE LET newDirection == Get(r.direction)
          IN  IF RecognizedDirection(newDirection)
              THEN /\ direction' = newDirection
                   /\ prefs' = Put(prefs, "direction", newDirection, r.saveOk)
                   /\ IF newDirection = "FORWARD"
                      THEN sendDShotCommand(DSHOT_CMD_SPIN_DIRECTION_NORMAL,
                                            Reply(200, "ok"))
                      ELSE IF newDirection = "REVERSE"
                      THEN sendDShotCommand(DSHOT_CMD_SPIN_DIRECTION_REVERSED,
                                            Reply(200, "ok"))
                      ELSE /\ resp' = Reply(200, "ok")
                           /\ pc' = "signal"
                           /\ UNCHANGED <<cmd, tx, pinLevels, interruptsOn>>
              ELSE /\ resp' = Reply(400, "Invalid direction")
                   /\ pc' = "signal"
                   /\ UNCHANGED <<direction, prefs, cmd, tx, pinLevels, interruptsOn>>

\* mutant of brakeOutcome: neither check is made
brakeOutcome_Unchecked == "brake"

\* mutant of brakeOutcome: the armed flag is not consulted
brakeOutcome_IgnoreArmed ==
  IF ~directionSupported THEN "unsupported" ELSE "brake"

\* the two checks of handleBrake, in their order
brakeOutcome ==
  IF ~directionSupported THEN "unsupported"
  ELSE IF escArmed THEN "brake" ELSE "not_armed"

\* mutant of handleBrake: braking also disarms
handleBrake_Disarms(r) ==
  /\ Serving
  /\ req' = r
  /\ UNCHANGED <<escSpin, wire, sys, escPin, protocol, directionSupported, prefs,
                 pinModes>>
  /\ IF brakeOutcome = "unsupported"
     THEN /\ resp' = Reply(400, "Braking not supported by current protocol")
          /\ pc' = "signal"
          /\ UNCHANGED <<escArmed, direction, throttleValue, cmd, tx, pinLevels,
                         interruptsOn>>
     ELSE IF brakeOutcome = "brake"
     THEN /\ direction' = "BRAKE"
          /\ throttleValue' = 0
          /\ escArmed' = FALSE
          /\ sendDShotCommand(DSHOT_CMD_MOTOR_STOP, Reply(200, "braking"))
     ELSE /\ resp' = Reply(400, "ESC must be armed to brake")
          /\ pc' = "signal"
          /\ UNCHANGED <<escArmed, direction, throttleValue, cmd, tx, pinLevels,
                         interruptsOn>>

handleBrake(r) ==
  /\ Serving
  /\ req' = r
  /\ UNCHANGED <<escSpin, wire, sys, escPin, protocol, escArmed, directionSupported, prefs,
                 pinModes>>
  /\ IF brakeOutcome = "unsupported"
     THEN /\ resp' = Reply(400, "Braking not supported by current protocol")
          /\ pc' = "signal"
          /\ UNCHANGED <<direction, throttleValue, cmd, tx, pinLevels, interruptsOn>>
     ELSE IF brakeOutcome = "brake"
     THEN /\ direction' = "BRAKE"
          /\ throttleValue' = 0
          /\ sendDShotCommand(DSHOT_CMD_MOTOR_STOP, Reply(200, "braking"))
     ELSE /\ resp' = Reply(400, "ESC must be armed to brake")
          /\ pc' = "signal"
          /\ UNCHANGED <<direction, throttleValue, cmd, tx, pinLevels, interruptsOn>>

-----------------------------------------------------------------------------
(* loop(), after handleClient(): send the signal if armed and throttle > 0, *)
(* then delay(20).                                                          *)

\* the end of an iteration of loop(): delay(20) and return
LoopReturn ==
  /\ pc' = "handleClient"
  /\ req' = NoReq
  /\ resp' = NoResp

\* mutant of signalDue: the armed flag is not consulted
signalDue_IgnoreArmed == throttleValue > 0

\* mutant of signalDue: a zero throttle is sent too
signalDue_ZeroIncluded == escArmed /\ throttleValue >= 0

\* the condition of loop() under which a signal is sent
signalDue == escArmed /\ throttleValue > 0

LoopSignal ==
  /\ pc = "signal"
  /\ IF signalDue
     THEN IF protocol = "PWM"
          THEN /\ sendPWMBegin(throttleValue)
               /\ pc' = "pulse"
               /\ UNCHANGED <<req, resp>>
          ELSE IF StartsWithDSHOT(protocol)
          THEN /\ sendDShotBegin(throttleValue)
               /\ pc' = "frame"
               /\ UNCHANGED <<req, resp>>
          ELSE LoopReturn /\ UNCHANGED <<tx, pinLevels, interruptsOn>>
     ELSE LoopReturn /\ UNCHANGED <<tx, pinLevels, interruptsOn>>
  /\ UNCHANGED <<escSpin, wire, sys, escState, prefs, pinModes, cmd>>

LoopPulseEnd ==
  /\ pc = "pulse"
  /\ sendPWMEnd
  /\ LoopReturn
  /\ UNCHANGED <<escSpin, wire, sys, escState, prefs, pinModes, cmd>>

LoopFrameEnd ==
  /\ pc = "frame"
  /\ sendDShotEnd
  /\ LoopReturn
  /\ UNCHANGED <<escSpin, wire, sys, escState, prefs, pinModes, cmd>>

-----------------------------------------------------------------------------

Next ==
  \/ \E spiffsOk \in BOOLEAN, wifiOk \in BOOLEAN : Setup(spiffsOk, wifiOk)
  \/ Restart
  \/ NoRequest
  \/ \E r \in StatusReqs : handleGetStatus(r)
  \/ \E r \in ConfigReqs : handleSetConfig(r)
  \/ \E r \in ThrottleReqs : handleSetThrottle(r)
  \/ \E r \in ArmReqs : handleArm(r)
  \/ \E r \in DisarmReqs : handleDisarm(r)
  \/ \E r \in DirectionReqs : handleSetDirection(r)
  \/ \E r \in BrakeReqs : handleBrake(r)
  \/ CmdFrameEnd
  \/ CmdDelayEnd
  \/ LoopSignal
  \/ LoopPulseEnd
  \/ LoopFrameEnd

Spec == Init /\ [][Next]_vars

-----------------------------------------------------------------------------
(* The same program with its scheduling, for progress.  The requests are   *)
(* one of each kind that is accepted.                                      *)

LiveConfigReqs ==
  {[Request("config") EXCEPT !.body = TRUE, !.protocol = Some(s)] :
     s \in {"PWM", "DSHOT150"}}

LiveThrottleReqs ==
  {[Request("throttle") EXCEPT !.body = TRUE, !.value = Some(1500)]}

LiveDirectionReqs ==
  {[Request("direction") EXCEPT !.body = TRUE, !.direction = Some(d)] :
     d \in {"FORWARD", "REVERSE"}}

\* a step of the sketch's one thread: setup(), then loop() for ever
ThreadStep ==
  \/ \E spiffsOk \in BOOLEAN, wifiOk \in BOOLEAN : Setup(spiffsOk, wifiOk)
  \/ NoRequest
  \/ \E r \in LiveConfigReqs : handleSetConfig(r)
  \/ \E r \in LiveThrottleReqs : handleSetThrottle(r)
  \/ \E r \in ArmReqs : handleArm(r)
  \/ \E r \in DisarmReqs : handleDisarm(r)
  \/ \E r \in LiveDirectionReqs : handleSetDirection(r)
  \/ \E r \in BrakeReqs : handleBrake(r)
  \/ CmdFrameEnd
  \/ CmdDelayEnd
  \/ LoopSignal
  \/ LoopPulseEnd
  \/ LoopFrameEnd

NextLive == ThreadStep \/ Restart

\* the thread is never suspended for good: every delay ends and every
\* handler returns, so its next step is taken eventually; which request
\* arrives, and whether power is cycled, is left open
SpecLive == Init /\ [][NextLive]_vars /\ WF_vars(ThreadStep)

-----------------------------------------------------------------------------
(* The same program with the ESC at the other end of the pin: the ESC      *)
(* keeps the spin direction of the last command 20 or 21 it received, also *)
(* while the sketch restarts.                                              *)

EscDirectionReqs ==
  {[Request("direction") EXCEPT !.body = TRUE, !.direction = Some(d)] :
     d \in {"FORWARD", "REVERSE", "BRAKE"}}

\* CmdFrameEnd, with the frame that sendDShot has just sent received
EscCmdFrameEnd ==
  /\ pc = "cmdFrame"
  /\ sendDShotEnd
  /\ pc' = "cmdDelay"
  /\ escSpin' = IF cmd.command \in {DSHOT_CMD_SPIN_DIRECTION_NORMAL,
                                    DSHOT_CMD_SPIN_DIRECTION_REVERSED}
                THEN cmd.command ELSE escSpin
  /\ UNCHANGED <<wire, sys, escState, prefs, pinModes, cmd, req, resp>>

\* a power cycle between two iterations of loop(), no command half sent
EscRestart == pc = "handleClient" /\ Restart

NextEsc ==
  \/ \E spiffsOk \in BOOLEAN, wifiOk \in BOOLEAN : Setup(spiffsOk, wifiOk)
  \/ EscRestart
  \/ NoRequest
  \/ \E r \in LiveConfigReqs : handleSetConfig(r)
  \/ \E r \in LiveThrottleReqs : handleSetThrottle(r)
  \/ \E r \in ArmReqs : handleArm(r)
  \/ \E r \in EscDirectionReqs : handleSetDirection(r)
  \/ \E r \in BrakeReqs : handleBrake(r)
  \/ EscCmdFrameEnd
  \/ CmdDelayEnd
  \/ LoopSignal
  \/ LoopPulseEnd
  \/ LoopFrameEnd

SpecEsc == Init /\ [][NextEsc]_vars

-----------------------------------------------------------------------------
(* The same program with flash writes that may fail: Preferences::putInt   *)
(* and putString return 0 and leave the key as it was.  The requests are   *)
(* those of configure and setDirection, and arm to bring the loop's        *)
(* signals in.                                                             *)

SavePinInputs == {39, 40}
SaveProtocolInputs == {"PWM", "DSHOT150", "DSHOT1200"}
SaveDirectionInputs == {"FORWARD", "REVERSE", "BRAKE"}

SaveConfigReqs ==
  {[Request("config") EXCEPT !.body = TRUE, !.pin = p, !.protocol = s, !.saveOk = ok] :
     p \in {Absent} \cup {Some(x) : x \in SavePinInputs},
     s \in {Absent} \cup {Some(x) : x \in SaveProtocolInputs},
     ok \in BOOLEAN}

SaveDirectionReqs ==
  {[Request("direction") EXCEPT !.body = TRUE, !.direction = Some(d), !.saveOk = ok] :
     d \in SaveDirectionInputs, ok \in BOOLEAN}

NextSaveFail ==
  \/ \E spiffsOk \in BOOLEAN, wifiOk \in BOOLEAN : Setup(spiffsOk, wifiOk)
  \/ Restart
  \/ NoRequest
  \/ \E r \in SaveConfigReqs : handleSetConfig(r)
  \/ \E r \in SaveDirectionReqs : handleSetDirection(r)
  \/ \E r \in ArmReqs : handleArm(r)
  \/ CmdFrameEnd
  \/ CmdDelayEnd
  \/ LoopSignal
  \/ LoopPulseEnd
  \/ LoopFrameEnd

SpecSaveFail == Init /\ [][NextSaveFail]_vars

-----------------------------------------------------------------------------
(* The frame encoder of sendDShot as a function of its argument: the       *)
(* argument is drawn from the 11-bit range, Encode computes the packet.    *)

FrameValues == 0..2047

InitEncoder ==
  /\ sys = "running"
  /\ pc = "sendDShot"
  /\ escPin = 5
  /\ protocol = "DSHOT150"
  /\ throttleValue = 1000
  /\ escArmed = FALSE
  /\ direction = "FORWARD"
  /\ directionSupported = TRUE
  /\ prefs = [NoPrefs EXCEPT !.protocol = Some("DSHOT150")]
  /\ pinModes = [[p \in GPIO |-> "UNSET"] EXCEPT ![5] = "OUTPUT"]
  /\ pinLevels = [p \in GPIO |-> "LOW"]
  /\ interruptsOn = TRUE
  /\ tx \in {[kind |-> "NONE", value |-> v, frame |-> 0] : v \in FrameValues}
  /\ cmd = NoCmd
  /\ req = NoReq
  /\ resp = NoResp
  /\ wire = NoWire
  /\ escSpin = 0

\* steps 1 and 2 of sendDShot(value), value being tx.value
Encode ==
  /\ pc = "sendDShot"
  /\ pc' = "encoded"
  /\ tx' = [kind |-> "DSHOT", value |-> tx.value,
            frame |-> EncodeFrame(tx.value)]
  /\ UNCHANGED <<escSpin, wire, sys, escState, prefs, pinModes, pinLevels,
                 interruptsOn, cmd, req, resp>>

NextEncoder == Encode

SpecEncoder == InitEncoder /\ [][NextEncoder]_vars

-----------------------------------------------------------------------------
(* The transmitters at the level of their delayMicroseconds() calls: one   *)
(* state per HIGH and per LOW phase of a PWM pulse and of each of the 16   *)
(* bits of a DShot frame.  The controller is armed with a positive         *)
(* throttle, so that loop() sends a signal in every iteration, and         *)
(* sendDShotCommand is entered as handleSetDirection and handleBrake enter *)
(* it.  pc tells sendDShot called by loop() (bitHigh, bitLow) from         *)
(* sendDShot called by sendDShotCommand (cmdBitHigh, cmdBitLow).           *)

WireThrottles == {1, 47, 48, 1000, 1500, 2047}

WireCommands == {DSHOT_CMD_MOTOR_STOP, DSHOT_CMD_SPIN_DIRECTION_NORMAL,
                 DSHOT_CMD_SPIN_DIRECTION_REVERSED}

DSHOT150_BIT_TIME == 6667
DSHOT300_BIT_TIME == 3333
DSHOT600_BIT_TIME == 1667

\* DSHOT_HIGH_RATIO = 0.75 and DSHOT_LOW_RATIO = 0.375, in thousandths
DSHOT_HIGH_RATIO == 750
DSHOT_LOW_RATIO == 375

\* step 3 of sendDShot: bitTime, DShot150 unless the name is one of the others
bitTime(proto) ==
  IF proto = "DSHOT300" THEN DSHOT300_BIT_TIME
  ELSE IF proto = "DSHOT600" THEN DSHOT600_BIT_TIME
  ELSE DSHOT150_BIT_TIME

\* int highTime = bitTime * ratio / 1000: the float product divided by 1000
\* and truncated to int
highTime(proto, b) ==
  (bitTime(proto) * (IF b = 1 THEN DSHOT_HIGH_RATIO ELSE DSHOT_LOW_RATIO))
    \div (1000 * 1000)

\* int lowTime = bitTime - highTime
lowTime(proto, b) == bitTime(proto) - highTime(proto, b)

\* packet & (1 << i), as 0 or 1
PacketBit(packet, i) == (packet \div (2 ^ i)) % 2

InitWire ==
  /\ sys = "running"
  /\ pc = "handleClient"
  /\ escPin = 5
  /\ protocol \in {"PWM", "DSHOT150", "DSHOT300", "DSHOT600"}
  /\ throttleValue \in WireThrottles
  /\ escArmed = TRUE
  /\ direction = "FORWARD"
  /\ directionSupported = StartsWithDSHOT(protocol)
  /\ prefs = [NoPrefs EXCEPT !.protocol = Some(protocol)]
  /\ pinModes = [[p \in GPIO |-> "UNSET"] EXCEPT ![5] = "OUTPUT"]
  /\ pinLevels = [p \in GPIO |-> "LOW"]
  /\ interruptsOn = TRUE
  /\ tx = NoTx
  /\ cmd = NoCmd
  /\ req = NoReq
  /\ resp = NoResp
  /\ wire = NoWire
  /\ escSpin = 0

\* mutant of pwmLowTime: the LOW phase is the whole period
pwmLowTime_WholePeriod(microseconds) == 20000

\* the argument of the second delayMicroseconds of sendPWM
pwmLowTime(microseconds) == 20000 - microseconds

\* mutant of frameStart: noInterrupts() is missing
frameStart_Unmasked(value) ==
  /\ tx' = [kind |-> "DSHOT", value |-> value, frame |-> EncodeFrame(value)]
  /\ UNCHANGED interruptsOn
  /\ wire' = [i |-> 15,
              high |-> highTime(protocol, PacketBit(EncodeFrame(value), 15)),
              low |-> 0]
  /\ pinLevels' = [pinLevels EXCEPT ![escPin] = "HIGH"]

\* sendDShot(value) up to its first delayMicroseconds: the packet, the
\* timing, noInterrupts(), i = 15, digitalWrite(escPin, HIGH)
frameStart(value) ==
  /\ tx' = [kind |-> "DSHOT", value |-> value, frame |-> EncodeFrame(value)]
  /\ interruptsOn' = FALSE
  /\ wire' = [i |-> 15,
              high |-> highTime(protocol, PacketBit(EncodeFrame(value), 15)),
              low |-> 0]
  /\ pinLevels' = [pinLevels EXCEPT ![escPin] = "HIGH"]

\* loop() after handleClient(): sendPWM(throttleValue) up to its first
\* delay, or sendDShot(throttleValue) up to its first delay
WireSignal ==
  /\ pc = "signal"
  /\ IF signalDue
     THEN IF protocol = "PWM"
          THEN /\ tx' = [kind |-> "PWM", value |-> throttleValue, frame |-> 0]
               /\ pinLevels' = [pinLevels EXCEPT ![escPin] = "HIGH"]
               /\ wire' = [i |-> 0, high |-> throttleValue, low |-> 0]
               /\ pc' = "pwmHigh"
               /\ UNCHANGED interruptsOn
          ELSE IF StartsWithDSHOT(protocol)
          THEN frameStart(throttleValue) /\ pc' = "bitHigh"
          ELSE /\ pc' = "handleClient"
               /\ UNCHANGED <<tx, pinLevels, wire, interruptsOn>>
     ELSE /\ pc' = "handleClient"
          /\ UNCHANGED <<tx, pinLevels, wire, interruptsOn>>
  /\ UNCHANGED <<escSpin, sys, escState, prefs, pinModes, cmd, req, resp>>

\* sendPWM: digitalWrite(escPin, LOW); delayMicroseconds(20000 - microseconds)
WirePwmHighEnd ==
  /\ pc = "pwmHigh"
  /\ pinLevels' = [pinLevels EXCEPT ![escPin] = "LOW"]
  /\ wire' = [wire EXCEPT !.low = pwmLowTime(tx.value)]
  /\ pc' = "pwmLow"
  /\ UNCHANGED <<escSpin, sys, escState, prefs, pinModes, interruptsOn, tx, cmd, req,
                 resp>>

\* sendPWM returns; delay(20); loop() returns
WirePwmLowEnd ==
  /\ pc = "pwmLow"
  /\ tx' = NoTx
  /\ wire' = NoWire
  /\ pc' = "handleClient"
  /\ UNCHANGED <<escSpin, sys, escState, prefs, pinModes, pinLevels, interruptsOn, cmd,
                 req, resp>>

\* handleClient() with no request: on to the signal check
WireNoRequest ==
  /\ pc = "handleClient"
  /\ pc' = "signal"
  /\ UNCHANGED <<escSpin, wire, sys, escState, prefs, pinModes, pinLevels,
                 interruptsOn, tx, cmd, req, resp>>

\* sendDShotCommand(command) entered from a handler, up to the first delay
\* of its first frame
WireCommand(command) ==
  /\ pc = "handleClient"
  /\ StartsWithDSHOT(protocol)
  /\ cmd' = [command |-> command, i |-> 0]
  /\ frameStart(command)
  /\ pc' = "cmdBitHigh"
  /\ UNCHANGED <<escSpin, sys, escState, prefs, pinModes, req, resp>>

\* the HIGH delay of bit i is over: digitalWrite(escPin, LOW);
\* delayMicroseconds(lowTime)
WireBitHighEnd ==
  /\ pc \in {"bitHigh", "cmdBitHigh"}
  /\ pinLevels' = [pinLevels EXCEPT ![escPin] = "LOW"]
  /\ wire' = [wire EXCEPT
                !.low = lowTime(protocol, PacketBit(tx.frame, wire.i))]
  /\ pc' = IF pc = "bitHigh" THEN "bitLow" ELSE "cmdBitLow"
  /\ UNCHANGED <<escSpin, sys, escState, prefs, pinModes, interruptsOn, tx, cmd, req,
                 resp>>

\* the LOW delay of bit i is over: i--, then the next bit goes HIGH, or
\* after bit 0 interrupts() and sendDShot returns
WireBitLowEnd ==
  /\ pc \in {"bitLow", "cmdBitLow"}
  /\ IF wire.i - 1 >= 0
     THEN /\ wire' = [i |-> wire.i - 1,
                      high |-> highTime(protocol,
                                        PacketBit(tx.frame, wire.i - 1)),
                      low |-> 0]
          /\ pinLevels' = [pinLevels EXCEPT ![escPin] = "HIGH"]
          /\ pc' = IF pc = "bitLow" THEN "bitHigh" ELSE "cmdBitHigh"
          /\ UNCHANGED <<tx, interruptsOn>>
     ELSE /\ wire' = NoWire
          /\ tx' = NoTx
          /\ interruptsOn' = TRUE
          /\ pc' = IF pc = "bitLow" THEN "handleClient" ELSE "cmdDelay"
          /\ UNCHANGED pinLevels
  /\ UNCHANGED <<escSpin, sys, escState, prefs, pinModes, cmd, req, resp>>

\* sendDShotCommand: delay(1) is over; i++, the next frame or the return to
\* the handler and on to the signal check
WireCmdDelayEnd ==
  /\ pc = "cmdDelay"
  /\ IF cmd.i + 1 < CommandRepeats
     THEN /\ cmd' = [cmd EXCEPT !.i = @ + 1]
          /\ frameStart(cmd.command)
          /\ pc' = "cmdBitHigh"
     ELSE /\ cmd' = NoCmd
          /\ pc' = "signal"
          /\ UNCHANGED <<tx, pinLevels, interruptsOn, wire>>
  /\ UNCHANGED <<escSpin, sys, escState, prefs, pinModes, req, resp>>

NextWire ==
  \/ WireNoRequest
  \/ \E c \in WireCommands : WireCommand(c)
  \/ WireSignal
  \/ WirePwmHighEnd
  \/ WirePwmLowEnd
  \/ WireBitHighEnd
  \/ WireBitLowEnd
  \/ WireCmdDelayEnd

SpecWire == InitWire /\ [][NextWire]_vars

-----------------------------------------------------------------------------
(* Properties.                                                             *)

DShotVariants == {"DSHOT150", "DSHOT300", "DSHOT600"}

\* a handler for op runs in this step
Handles(op) == pc = "handleClient" /\ req'.op = op

Min(a, b) == IF a < b THEN a ELSE b
Max(a, b) == IF a > b THEN a ELSE b

\* C1: no PWM pulse and no DShot frame carrying a throttle-band value
\* (48..2047) is on the wire while the controller is disarmed.
C1_NoThrottleSignalWhileDisarmed ==
  (tx.kind = "PWM" \/ (tx.kind = "DSHOT" /\ tx.value \in 48..2047)) => escArmed

\* the loop has passed its signal check, disarmed with a positive throttle
\* stored by setThrottle, and sent nothing
C1_Witness ==
  /\ sys = "running"
  /\ pc = "handleClient"
  /\ ~escArmed
  /\ throttleValue = 1500
  /\ tx = NoTx

\* C2: when disarm() returns, before the loop's signal check has run, the
\* controller is disarmed, the throttle is 0, the output pin is LOW and the
\* caller got the success reply.
C2_DisarmSynchronous ==
  req.op = "disarm" =>
    /\ pc = "signal"
    /\ ~escArmed
    /\ throttleValue = 0
    /\ pinLevels[escPin] = "LOW"
    /\ tx = NoTx
    /\ resp = Reply(200, "disarmed")

C2_Witness ==
  /\ req.op = "disarm"
  /\ protocol = "PWM"
  /\ pinModes[escPin] = "OUTPUT"

\* C3: the stored throttle is within the active protocol's range, [1000,2000]
\* for PWM and [0,2047] for a DShot variant.
C3_ThrottleInProtocolRange ==
  /\ protocol = "PWM" => throttleValue \in 1000..2000
  /\ protocol \in DShotVariants => throttleValue \in 0..2047

\* C4: every PWM pulse the loop sends has a width in [1000,2000].
C4_PwmWidthInRange ==
  tx.kind = "PWM" => tx.value \in 1000..2000

\* C5: setThrottle(v) succeeds, armed or not, and stores min(max(v, lo), hi)
\* for the active protocol's [lo,hi]; pin, protocol, armed and direction are
\* left alone.
C5_SetThrottleClamps ==
  [][(Handles("throttle") /\ Has(req'.value)) =>
       LET v == Get(req'.value)
           lo == IF protocol = "PWM" THEN 1000 ELSE 0
           hi == IF protocol = "PWM" THEN 2000 ELSE 2047
       IN  /\ throttleValue' = Min(Max(v, lo), hi)
           /\ resp' = Reply(200, "ok")
           /\ UNCHANGED <<escPin, protocol, escArmed, direction>>]_vars

\* setThrottle(-10) under DShot while armed stored 0
C5_Witness ==
  /\ req.op = "throttle"
  /\ req.value = Some(-10)
  /\ protocol \in DShotVariants
  /\ escArmed
  /\ throttleValue = 0

\* C6: when arm() returns the controller is armed and the throttle is the
\* idle value of the active protocol, 1000 for PWM and 48 for DShot.
C6_ArmResetsToIdle ==
  req.op = "arm" =>
    /\ escArmed
    /\ protocol = "PWM" => throttleValue = 1000
    /\ protocol \in DShotVariants => throttleValue = 48
    /\ resp = Reply(200, "armed")

C6_Witness ==
  /\ req.op = "arm"
  /\ protocol = "DSHOT600"
  /\ throttleValue = 48
  /\ escArmed

\* C7: disarm() is idempotent: its effect applied twice is its effect applied
\* once, in the state disarm() returns in a second disarm() would change
\* nothing, and disarm() leaves direction, protocol, pin, pin modes and the
\* store alone.
C7_DisarmIdempotent ==
  /\ [](disarmed(disarmed(DisarmView)) = disarmed(DisarmView))
  /\ [](req.op = "disarm" => disarmed(DisarmView) = DisarmView)
  /\ [][Handles("disarm") =>
          UNCHANGED <<direction, protocol, directionSupported, escPin,
                      pinModes, prefs>>]_vars

C7_Witness ==
  /\ req.op = "disarm"
  /\ protocol \in DShotVariants
  /\ direction = "BRAKE"

\* C8: whenever the protocol is PWM the direction is FORWARD, also right
\* after a startup from a store that holds another direction.
C8_PwmImpliesForward ==
  protocol = "PWM" => direction = "FORWARD"

\* started up with PWM and REVERSE persisted
C8_Witness ==
  /\ sys = "running"
  /\ req.op = "none"
  /\ prefs.protocol = Some("PWM")
  /\ prefs.direction = Some("REVERSE")
  /\ protocol = "PWM"

\* C9: directionSupported is true exactly when the protocol is one of the
\* three DShot variants, and it changes only in a step that changes the
\* protocol.
C9_DirectionSupportedDerived ==
  /\ [](directionSupported <=> protocol \in DShotVariants)
  /\ [][directionSupported' # directionSupported => protocol' # protocol]_vars

C9_Witness ==
  /\ directionSupported
  /\ protocol = "DSHOT300"
  /\ req.op = "config"

\* C10: configure(protocol = PWM) while the protocol is a DShot variant leaves
\* direction FORWARD and directionSupported false.
C10_SwitchToPwmForcesForward ==
  [][(Handles("config") /\ req'.protocol = Some("PWM")
        /\ protocol \in DShotVariants) =>
       /\ protocol' = "PWM"
       /\ direction' = "FORWARD"
       /\ directionSupported' = FALSE]_vars

\* configure(protocol = PWM) has just run with REVERSE as the last direction
\* set and persisted
C10_Witness ==
  /\ req.op = "config"
  /\ req.protocol = Some("PWM")
  /\ prefs.direction = Some("REVERSE")
  /\ direction = "FORWARD"
  /\ ~directionSupported

-----------------------------------------------------------------------------
(* Properties of setDirection and brake.                                   *)

\* a step of the program, not a power cycle
ProgramStep == pc' # "boot"

\* the step starts no transmission and leaves the wire idle
NoFrameStarted == tx' = NoTx /\ pc' = "signal" /\ cmd' = NoCmd

\* a handler has started sendDShotCommand(c): its first frame is on the wire
CommandStarted(c) ==
  /\ pc' = "cmdFrame"
  /\ cmd' = [command |-> c, i |-> 0]
  /\ tx'.kind = "DSHOT"
  /\ tx'.value = c

\* C11: a failing setDirection changes nothing: a capability error when
\* directionSupported is false, a validation error when the protocol is DShot
\* and the name is not FORWARD/REVERSE/BRAKE; direction, throttle, armed and
\* the persisted direction stay and no frame is sent.
C11_FailedSetDirectionChangesNothing ==
  [][/\ (Handles("direction") /\ ~directionSupported) =>
          /\ resp' = Reply(400, "Direction control not supported by current protocol")
          /\ UNCHANGED <<escState, prefs, pinLevels, pinModes>>
          /\ NoFrameStarted
     /\ (Handles("direction") /\ directionSupported /\ Has(req'.direction)
           /\ Get(req'.direction) \notin {"FORWARD", "REVERSE", "BRAKE"}) =>
          /\ resp' = Reply(400, "Invalid direction")
          /\ UNCHANGED <<escState, prefs, pinLevels, pinModes>>
          /\ NoFrameStarted]_vars

\* setDirection("LEFT") was refused under DShot with REVERSE stored
C11_Witness ==
  /\ req.op = "direction"
  /\ req.direction = Some("LEFT")
  /\ resp = Reply(400, "Invalid direction")
  /\ directionSupported
  /\ direction = "REVERSE"
  /\ prefs.direction = Some("REVERSE")

\* the frames of the command a setDirection request asks for
DirectionCommand(d) ==
  IF d = "FORWARD" THEN 20 ELSE IF d = "REVERSE" THEN 21 ELSE -1

\* C12: under DShot, setDirection(dir) with a recognized dir succeeds armed or
\* not, stores and persists dir, and sends exactly ten frames of command 20
\* for FORWARD, of command 21 for REVERSE, none for BRAKE; throttle and armed
\* are left alone.
C12_SetDirectionSendsTenFrames ==
  /\ [][(Handles("direction") /\ directionSupported /\ Has(req'.direction)
           /\ Get(req'.direction) \in {"FORWARD", "REVERSE", "BRAKE"}) =>
          LET d == Get(req'.direction)
          IN  /\ direction' = d
              /\ prefs'.direction = Some(d)
              /\ UNCHANGED <<throttleValue, escArmed, protocol, escPin>>
              /\ IF d = "BRAKE"
                 THEN NoFrameStarted /\ resp' = Reply(200, "ok")
                 ELSE CommandStarted(DirectionCommand(d))]_vars
  /\ []((req.op = "direction" /\ pc = "cmdFrame") =>
          /\ tx.kind = "DSHOT"
          /\ tx.value = DirectionCommand(Get(req.direction))
          /\ cmd.i \in 0..9)
  /\ [][(req.op = "direction" /\ pc = "cmdDelay" /\ ProgramStep) =>
          IF cmd.i < 9
          THEN pc' = "cmdFrame" /\ cmd'.i = cmd.i + 1
          ELSE pc' = "signal" /\ tx' = NoTx /\ resp' = Reply(200, "ok")]_vars

\* the tenth frame of command 21 is on the wire, the controller disarmed
C12_Witness ==
  /\ req.op = "direction"
  /\ pc = "cmdFrame"
  /\ cmd.i = 9
  /\ tx.value = 21
  /\ ~escArmed
  /\ direction = "REVERSE"
  /\ prefs.direction = Some("REVERSE")

\* C13: brake() with directionSupported and armed succeeds, sets direction to
\* BRAKE and throttle to 0, sends exactly ten frames of command 0, and leaves
\* armed true and protocol and pin as they were.
C13_BrakeSendsTenStopFrames ==
  /\ [][(Handles("brake") /\ directionSupported /\ escArmed) =>
          /\ direction' = "BRAKE"
          /\ throttleValue' = 0
          /\ UNCHANGED <<escArmed, protocol, escPin>>
          /\ CommandStarted(0)]_vars
  /\ []((req.op = "brake" /\ pc = "cmdFrame") =>
          /\ tx.kind = "DSHOT"
          /\ tx.value = 0
          /\ cmd.i \in 0..9
          /\ escArmed /\ direction = "BRAKE" /\ throttleValue = 0)
  /\ [][(req.op = "brake" /\ pc = "cmdDelay" /\ ProgramStep) =>
          IF cmd.i < 9
          THEN pc' = "cmdFrame" /\ cmd'.i = cmd.i + 1
          ELSE pc' = "signal" /\ tx' = NoTx /\ resp' = Reply(200, "braking")]_vars

\* brake() has replied after its ten frames
C13_Witness ==
  /\ req.op = "brake"
  /\ resp = Reply(200, "braking")
  /\ pc = "signal"
  /\ escArmed
  /\ direction = "BRAKE"
  /\ throttleValue = 0

\* C14: a failing brake() changes nothing: a capability error whenever
\* directionSupported is false, armed or not, and a not-armed error when it
\* is supported and the controller is disarmed; throttle, direction and armed
\* stay and no frame is sent.
C14_FailedBrakeChangesNothing ==
  [][/\ (Handles("brake") /\ ~directionSupported) =>
          /\ resp' = Reply(400, "Braking not supported by current protocol")
          /\ UNCHANGED <<escState, prefs, pinLevels, pinModes>>
          /\ NoFrameStarted
     /\ (Handles("brake") /\ directionSupported /\ ~escArmed) =>
          /\ resp' = Reply(400, "ESC must be armed to brake")
          /\ UNCHANGED <<escState, prefs, pinLevels, pinModes>>
          /\ NoFrameStarted]_vars

\* brake() was refused under DShot, disarmed, with a throttle stored
C14_Witness ==
  /\ req.op = "brake"
  /\ resp = Reply(400, "ESC must be armed to brake")
  /\ directionSupported
  /\ ~escArmed
  /\ throttleValue = 1500

-----------------------------------------------------------------------------
(* Properties of configure.                                                *)

ProtocolNames == {"PWM", "DSHOT150", "DSHOT300", "DSHOT600"}

BadPin(r) == Has(r.pin) /\ Get(r.pin) \notin 0..39
BadProtocol(r) == Has(r.protocol) /\ Get(r.protocol) \notin ProtocolNames
GoodPin(r) == Has(r.pin) /\ Get(r.pin) \in 0..39
GoodProtocol(r) == Has(r.protocol) /\ Get(r.protocol) \in ProtocolNames

C16_InvalidConfigReportsFailure ==
  (req.op = "config" /\ (BadPin(req) \/ BadProtocol(req))) => resp.code >= 400

\* C17: the pin assignment is always an integer in [0,39].
C17_PinInRange == escPin \in 0..39

\* configure(pin = 40) has run after the pin had been set to 39
C17_Witness ==
  /\ req.op = "config"
  /\ req.pin = Some(40)
  /\ escPin = 39
  /\ pinModes[39] = "OUTPUT"

\* C18: no configure call changes the pin while the controller is armed.
C18_PinChangesOnlyWhileDisarmed ==
  [][(Handles("config") /\ escArmed) => escPin' = escPin]_vars

-----------------------------------------------------------------------------
(* Properties of the loop and of the command repetition.                   *)

\* C19: the signal check of a loop iteration sends exactly one signal when
\* armed and throttle > 0, carrying the stored throttle, a PWM pulse under
\* PWM and a DShot frame under a DShot variant, and sends nothing otherwise.
C19_OneSignalPerTick ==
  /\ [][(pc = "signal" /\ ProgramStep) =>
          IF escArmed /\ throttleValue > 0
          THEN /\ tx'.value = throttleValue
               /\ pinLevels'[escPin] = "HIGH"
               /\ protocol = "PWM" => (tx'.kind = "PWM" /\ pc' = "pulse")
               /\ protocol \in DShotVariants =>
                    (tx'.kind = "DSHOT" /\ pc' = "frame")
          ELSE /\ tx' = NoTx
               /\ pc' = "handleClient"
               /\ UNCHANGED pinLevels]_vars
  /\ [][(pc \in {"pulse", "frame"} /\ ProgramStep) =>
          (tx' = NoTx /\ pc' = "handleClient")]_vars
  /\ [](tx # NoTx <=> pc \in {"pulse", "frame", "cmdFrame"})
  /\ [][(pc \in {"signal", "pulse", "frame"} /\ ProgramStep) =>
          UNCHANGED <<escState, prefs>>]_vars

\* after brake() an iteration of the loop has passed, armed with throttle 0,
\* and sent nothing
C19_Witness ==
  /\ sys = "running"
  /\ pc = "handleClient"
  /\ escArmed
  /\ throttleValue = 0
  /\ direction = "BRAKE"
  /\ tx = NoTx

\* C20: a special command goes out as exactly ten consecutive frames of the
\* same command value; from the first frame to the tenth nothing else is
\* sent, no handler runs, no signal check runs and the state stays.
C20_CommandFramesNotInterleaved ==
  /\ [][(pc \in {"cmdFrame", "cmdDelay"} /\ ProgramStep) =>
          /\ UNCHANGED <<escState, prefs, req, pinModes>>
          /\ pc = "cmdFrame" =>
               (pc' = "cmdDelay" /\ tx' = NoTx /\ cmd' = cmd)
          /\ pc = "cmdDelay" =>
               IF cmd.i < 9
               THEN /\ pc' = "cmdFrame"
                    /\ cmd' = [cmd EXCEPT !.i = @ + 1]
                    /\ tx'.kind = "DSHOT"
                    /\ tx'.value = cmd.command
               ELSE pc' = "signal" /\ tx' = NoTx]_vars
  /\ [](pc = "cmdFrame" =>
          /\ tx.kind = "DSHOT"
          /\ tx.value = cmd.command
          /\ cmd.command \in {0, 20, 21}
          /\ cmd.i \in 0..9)
  /\ [](pc = "cmdDelay" => (tx = NoTx /\ cmd.i \in 0..9))

\* between the fifth and the sixth frame of command 20, armed with a
\* throttle stored that the loop would send
C20_Witness ==
  /\ pc = "cmdDelay"
  /\ cmd = [command |-> 20, i |-> 4]
  /\ escArmed
  /\ throttleValue = 1500
  /\ tx = NoTx

-----------------------------------------------------------------------------
(* Properties of the protocol selection, of startup and of the store.      *)

\* C21: no DShot frame, throttle or command, is on the wire while protocol
\* is PWM, and no PWM pulse is on the wire while protocol is a DShot variant.
C21_ProtocolsMutuallyExclusive ==
  /\ tx.kind = "DSHOT" => protocol \in DShotVariants
  /\ tx.kind = "PWM" => protocol = "PWM"
  /\ pc \in {"cmdFrame", "cmdDelay"} => protocol \in DShotVariants
  /\ pc = "pulse" => protocol = "PWM"
  /\ pc = "frame" => protocol \in DShotVariants

\* a PWM pulse is on the wire after the protocol had been a DShot variant
\* with the direction set to REVERSE
C21_Witness ==
  /\ tx.kind = "PWM"
  /\ pc = "pulse"
  /\ prefs.protocol = Some("PWM")
  /\ prefs.direction = Some("REVERSE")

\* the state setup() builds from the store
LoadedPin == GetOr(prefs.escPin, 5)
LoadedProtocol == GetOr(prefs.protocol, "PWM")
LoadedDirection ==
  IF LoadedProtocol = "PWM" THEN "FORWARD"
  ELSE GetOr(prefs.direction, "FORWARD")

\* C22: after a startup that brings the server up, pin, protocol and
\* direction are the persisted ones (5, PWM, FORWARD when nothing is
\* persisted), the controller is disarmed and the throttle is the idle value
\* of the loaded protocol, 1000 for PWM and 48 for a DShot variant.
C22_StartupState ==
  [][(pc = "boot" /\ sys' = "running") =>
       /\ escPin' = LoadedPin
       /\ protocol' = LoadedProtocol
       /\ direction' = LoadedDirection
       /\ ~escArmed'
       /\ throttleValue' = (IF protocol' = "PWM" THEN 1000 ELSE 48)]_vars

\* setDirection is accepted in the current state
SetDirectionAccepted(r) ==
  /\ directionSupported
  /\ r.body
  /\ Has(r.direction)
  /\ Get(r.direction) \in {"FORWARD", "REVERSE", "BRAKE"}

AtDefaults == <<5, "PWM", 1000, FALSE, "FORWARD", FALSE>>
Configured == <<5, "DSHOT300", 1000, FALSE, "FORWARD", TRUE>>
ArmedIdle == <<5, "DSHOT300", 48, TRUE, "FORWARD", TRUE>>
Throttled == <<5, "DSHOT300", 1500, TRUE, "FORWARD", TRUE>>

ThrottledStatus ==
  [pin |-> 5, protocol |-> "DSHOT300", directionSupported |-> TRUE,
   throttle |-> 1500, armed |-> TRUE, direction |-> "FORWARD"]

\* C25: from the default startup state with nothing persisted,
\* configure(pin=5, protocol=DSHOT300), arm(), setThrottle(1500) lead, with
\* any number of loop iterations in between, to the status pin=5,
\* protocol=DSHOT300, armed, throttle=1500, FORWARD, directionSupported;
\* getStatus changes no state.
C25_EndToEndStatus ==
  /\ [][(Handles("config") /\ prefs = NoPrefs /\ escState = AtDefaults
           /\ req'.pin = Some(5) /\ req'.protocol = Some("DSHOT300")) =>
          escState' = Configured]_vars
  /\ [][(Handles("arm") /\ escState = Configured) =>
          escState' = ArmedIdle]_vars
  /\ [][(Handles("throttle") /\ escState = ArmedIdle
           /\ req'.value = Some(1500)) =>
          escState' = Throttled]_vars
  /\ [][(escState \in {Configured, ArmedIdle, Throttled} /\ ProgramStep
           /\ (pc # "handleClient" \/ req'.op = "none")) =>
          UNCHANGED escState]_vars
  /\ [][Handles("status") =>
          /\ UNCHANGED <<escState, prefs, pinModes, pinLevels, tx, cmd>>
          /\ resp'.code = 200
          /\ escState = Throttled => resp'.doc = Some(ThrottledStatus)]_vars

\* getStatus has answered at the end of the sequence
C25_Witness ==
  /\ req.op = "status"
  /\ resp.doc = Some(ThrottledStatus)
  /\ escState = Throttled
  /\ prefs = [NoPrefs EXCEPT !.escPin = Some(5), !.protocol = Some("DSHOT300")]

-----------------------------------------------------------------------------
(* Properties of a failed save.                                            *)

\* C24: when the save fails during configure or setDirection, the new pin,
\* protocol, directionSupported and direction are in effect all the same,
\* the store keeps what it held and the caller gets the success reply.
C24_FailedSaveStillApplies ==
  /\ [][(Handles("config") /\ req'.body /\ ~req'.saveOk) =>
          /\ GoodPin(req') =>
               (escPin' = Get(req'.pin) /\ pinModes'[escPin'] = "OUTPUT")
          /\ GoodProtocol(req') =>
               /\ protocol' = Get(req'.protocol)
               /\ directionSupported' = (protocol' # "PWM")
          /\ resp' = Reply(200, "ok")
          /\ UNCHANGED prefs]_vars
  /\ [][(Handles("direction") /\ SetDirectionAccepted(req') /\ ~req'.saveOk) =>
          /\ direction' = Get(req'.direction)
          /\ UNCHANGED prefs
          /\ pc' \in {"signal", "cmdFrame"}
          /\ pc' = "signal" => resp' = Reply(200, "ok")]_vars
  /\ [][(pc \in {"cmdFrame", "cmdDelay"} /\ ProgramStep) =>
          /\ UNCHANGED <<direction, prefs>>
          /\ pc' = "signal" => resp' = Reply(200, "ok")]_vars

\* setDirection(REVERSE) has replied 200 although its save failed: REVERSE is
\* in effect and the store holds no direction; the pin set before by a
\* configure whose save failed is in effect too
C24_Witness ==
  /\ req.op = "direction"
  /\ ~req.saveOk
  /\ pc = "signal"
  /\ resp = Reply(200, "ok")
  /\ direction = "REVERSE"
  /\ prefs.direction = Absent
  /\ escPin = 39
  /\ prefs.escPin = Absent

-----------------------------------------------------------------------------
(* Properties of the frame encoder.                                        *)

\* nibble k of a 16-bit word, and the exclusive or of two nibbles
Nibble(w, k) == (w \div (16 ^ k)) % 16
NibbleXor(a, b) ==
  LET bit(k) == (((a \div (2 ^ k)) % 2) + ((b \div (2 ^ k)) % 2)) % 2
  IN  bit(0) + 2 * bit(1) + 4 * bit(2) + 8 * bit(3)

\* C26: for every value in [0,2047] the frame holds the value in bits 15..5,
\* the telemetry flag 0 in bit 4 and the checksum of the upper twelve bits in
\* bits 3..0, so that frame >> 5 is the value.
C26_ValueInUpperBits ==
  pc = "encoded" =>
    /\ tx.frame \div 32 = tx.value
    /\ (tx.frame \div 16) % 2 = 0
    /\ Nibble(tx.frame, 0) =
         NibbleXor(NibbleXor(Nibble(tx.frame, 1), Nibble(tx.frame, 2)),
                   Nibble(tx.frame, 3))

-----------------------------------------------------------------------------
(* Properties of the signal timing.                                        *)

\* the bit period of a speed grade, in nanoseconds
BitPeriodNs(proto) ==
  IF proto = "DSHOT150" THEN 6667
  ELSE IF proto = "DSHOT300" THEN 3333 ELSE 1667

Abs(x) == IF x < 0 THEN -x ELSE x

\* C28: for each bit of a frame, the HIGH time plus the LOW time passed to
\* delayMicroseconds is the bit period of the speed grade (6667, 3333 or
\* 1667 ns) and the HIGH time is 75% of it for a 1 and 37.5% for a 0, each to
\* within the microsecond the delay is given in.
C28_BitTimesAddUpToPeriod ==
  pc \in {"bitLow", "cmdBitLow"} =>
    LET period == BitPeriodNs(protocol)
        b == PacketBit(tx.frame, wire.i)
        share == IF b = 1 THEN 750 ELSE 375
    IN  /\ Abs((wire.high + wire.low) * 1000 - period) < 1000
        /\ Abs(wire.high * 1000 - (period * share) \div 1000) < 1000

\* C29: sendPWM(w) holds the pin HIGH for w microseconds, then LOW for
\* 20000 - w microseconds, 20000 in all, and returns with the pin LOW, for
\* every w loop() passes.
C29_PwmPulseFillsPeriod ==
  /\ [](pc = "pwmHigh" =>
          /\ pinLevels[escPin] = "HIGH"
          /\ wire.high = throttleValue
          /\ wire.high > 0)
  /\ [](pc = "pwmLow" =>
          /\ pinLevels[escPin] = "LOW"
          /\ wire.high = tx.value
          /\ wire.low = 20000 - tx.value
          /\ wire.low >= 0
          /\ wire.high + wire.low = 20000)
  /\ [][(pc = "signal" /\ protocol = "PWM") => pc' = "pwmHigh"]_vars
  /\ [][pc = "pwmHigh" => pc' = "pwmLow"]_vars
  /\ [][pc = "pwmLow" =>
          (pc' = "handleClient" /\ pinLevels'[escPin] = "LOW")]_vars

\* the LOW phase of sendPWM(48), a width the loop passes after a switch from
\* a DShot variant to PWM while armed
C29_Witness ==
  /\ pc = "pwmLow"
  /\ wire = [i |-> 0, high |-> 48, low |-> 19952]
  /\ pinLevels[escPin] = "LOW"

\* C30: interrupts are off from before the first bit of a frame goes HIGH
\* until its sixteenth bit has been driven, and on whenever no frame is in
\* progress, the delays between the ten frames of a command included.
C30_InterruptsOffDuringFrame ==
  /\ [](pc \in {"bitHigh", "bitLow", "cmdBitHigh", "cmdBitLow"} =>
          (~interruptsOn /\ tx.kind = "DSHOT" /\ wire.i \in 0..15))
  /\ [](pc \in {"handleClient", "signal", "pwmHigh", "pwmLow", "cmdDelay"} =>
          interruptsOn)
  /\ [][(pc \in {"handleClient", "signal", "cmdDelay"}
           /\ pc' \in {"bitHigh", "cmdBitHigh"}) =>
          (~interruptsOn' /\ wire'.i = 15)]_vars
  /\ [][(~interruptsOn /\ interruptsOn') =>
          (pc \in {"bitLow", "cmdBitLow"} /\ wire.i = 0)]_vars

\* the delay between the third and the fourth frame of command 21
C30_Witness ==
  /\ pc = "cmdDelay"
  /\ cmd = [command |-> 21, i |-> 2]
  /\ interruptsOn
  /\ tx = NoTx

-----------------------------------------------------------------------------
(* Properties of the armed flag, of the output pin and of the store.       *)

\* the thread is between two operations: no pulse and no frame in progress
Quiescent == pc \in {"handleClient", "signal", "cmdDelay"}

\* C32: only arm() and disarm() change the armed flag; configure,
\* setThrottle, setDirection, brake, getStatus and the loop leave it, and a
\* configure made while armed leaves the throttle too.
C32_ArmedChangesOnlyByArmDisarm ==
  /\ [][(ProgramStep /\ escArmed' # escArmed) =>
          (Handles("arm") \/ Handles("disarm"))]_vars
  /\ [][Handles("arm") => escArmed']_vars
  /\ [][Handles("disarm") => ~escArmed']_vars
  /\ [][(Handles("config") /\ escArmed) =>
          (escArmed' /\ throttleValue' = throttleValue)]_vars

\* configure(pin = 39, protocol = PWM) has run while armed under a DShot
\* variant: still armed, the throttle still the DShot idle value
C32_Witness ==
  /\ req.op = "config"
  /\ req.pin = Some(39)
  /\ req.protocol = Some("PWM")
  /\ escArmed
  /\ throttleValue = 48
  /\ escPin = 39
  /\ protocol = "PWM"

C34_PinLowWhileDisarmed ==
  ~escArmed => \A p \in GPIO : pinLevels[p] = "LOW"

\* C34 as amended: while the controller is disarmed the pin is driven HIGH
\* only by the ten command frames of a setDirection(FORWARD) or
\* setDirection(REVERSE) under a DShot variant; configure, setThrottle,
\* brake, getStatus and the loop leave it LOW.
C34_PinHighWhileDisarmedOnlyForDirection ==
  (~escArmed /\ \E p \in GPIO : pinLevels[p] = "HIGH") =>
    /\ pc = "cmdFrame"
    /\ req.op = "direction"
    /\ protocol \in DShotVariants
    /\ tx.kind = "DSHOT"
    /\ tx.value \in {DSHOT_CMD_SPIN_DIRECTION_NORMAL,
                     DSHOT_CMD_SPIN_DIRECTION_REVERSED}
    /\ pinLevels[escPin] = "HIGH"

\* the fourth frame of command 20 is on the wire, the controller disarmed
\* with a throttle stored
C34_Witness ==
  /\ ~escArmed
  /\ throttleValue = 1500
  /\ pc = "cmdFrame"
  /\ cmd = [command |-> 20, i |-> 3]
  /\ pinLevels[escPin] = "HIGH"

\* C35: every DShot frame the loop sends carries a value of the throttle
\* band [48,2047]; values of the command band [0,47] are sent only by
\* sendDShotCommand.
C35_LoopFramesInThrottleBand ==
  /\ pc = "frame" => tx.value \in 48..2047
  /\ (tx.kind = "DSHOT" /\ tx.value \in 0..47) => pc = "cmdFrame"

\* C37: while the stored direction is BRAKE the loop sends no throttle
\* signal.
C37_NoThrottleWhileBrake ==
  pc \in {"pulse", "frame"} => direction \in {"FORWARD", "REVERSE"}

\* C38: between operations of a running controller, pin, protocol and
\* direction are what setup() would load from the store.
C38_StoreAgreesWithState ==
  (sys = "running" /\ pc \in {"handleClient", "signal"}) =>
    /\ escPin = LoadedPin
    /\ protocol = LoadedProtocol
    /\ direction = LoadedDirection

\* C39: in each speed grade the HIGH time of a 0 bit is nonzero and shorter
\* than the HIGH time of a 1 bit.
C39_BitValuesDistinguishable ==
  (pc \in {"bitHigh", "cmdBitHigh"} /\ PacketBit(tx.frame, wire.i) = 0) =>
    (wire.high > 0 /\ wire.high < highTime(protocol, 1))

-----------------------------------------------------------------------------
(* Progress.                                                               *)

\* C31: every handler, the ten-frame command included, returns and the
\* signal check of that iteration follows, every iteration of loop() ends,
\* and a pulse or a frame is sent again and again unless the controller
\* is, again and again, not armed with a positive throttle (up to a power
\* cycle, which starts the sketch anew).
C31_OperationsTerminateLoopRuns ==
  /\ (pc \in {"cmdFrame", "cmdDelay"}) ~> (pc \in {"signal", "boot"})
  /\ (pc = "handleClient") ~> (pc \in {"signal", "boot"})
  /\ (pc = "signal") ~> (pc \in {"handleClient", "boot"})
  /\ []<>(~(escArmed /\ throttleValue > 0) \/ pc \in {"pulse", "frame"})

\* setDirection(REVERSE) has returned from its ten frames, the controller
\* armed with a throttle the signal check that follows will send
C31_Witness ==
  /\ pc = "signal"
  /\ req.op = "direction"
  /\ resp = Reply(200, "ok")
  /\ direction = "REVERSE"
  /\ escArmed
  /\ throttleValue = 1500
  /\ cmd = NoCmd

-----------------------------------------------------------------------------
(* Properties of the direction the ESC was told.                           *)

\* C36: between operations, under a DShot variant with direction FORWARD
\* or REVERSE stored, the last spin direction command sent to the ESC, if
\* any was sent, is the one of the stored direction (20 for FORWARD, 21 for
\* REVERSE).
C36_SentDirectionMatchesStored ==
  (/\ sys = "running"
   /\ pc \in {"handleClient", "signal"}
   /\ protocol \in DShotVariants
   /\ direction \in {"FORWARD", "REVERSE"}
   /\ escSpin # 0) =>
    escSpin = DirectionCommand(direction)

====
